---- MODULE Spec2Model ----
(***************************************************************************)
(* Model of the Hetzner Cloud floating-ip resource agent                   *)
(* (floating_ip.py: IpFinder, FloatingIp.populated / start / stop /        *)
(* monitor).  Two cluster hosts run the agent against one remote API.      *)
(* A host's invocation advances one remote call at a time: the call, the   *)
(* except clause that catches its exception and the sleep of that clause   *)
(* form one step, so invocations on different hosts interleave between     *)
(* remote calls.                                                           *)
(***************************************************************************)
EXTENDS Integers, Sequences, FiniteSets, TLC

\* ------------------------------------------------------------------ bounds
\* Retried remote failures held by the invocations of all hosts together.
MaxFail == 1
\* Retried remote failures of one invocation when a single host runs alone.
MaxSoloFail == 3

\* ------------------------------------------------------------- the domain
Hosts == {"hostA", "hostB"}

\* The exceptions of hetznercloud.exceptions imported by floating_ip.py.
HetznerInternalServerErrorException == "HetznerInternalServerErrorException"
HetznerActionException == "HetznerActionException"
HetznerRateLimitExceeded == "HetznerRateLimitExceeded"
HetznerAuthenticationException == "HetznerAuthenticationException"
\* Raised by IpFinder.find and by the host finders when nothing matches.
EnvironmentError == "EnvironmentError"

\* What a remote call can raise; "ok" is a call that returns.
RetryableExceptions ==
    {HetznerInternalServerErrorException, HetznerActionException,
     HetznerRateLimitExceeded}

\* The spec's classification of a raised exception.
Classify(exc) ==
    CASE exc = HetznerInternalServerErrorException -> "Transient"
      [] exc = HetznerActionException -> "Transient"
      [] exc = HetznerRateLimitExceeded -> "RateLimited"
      [] exc = HetznerAuthenticationException -> "AuthenticationFailed"
      [] exc = EnvironmentError -> "NotFound"
      [] OTHER -> "none"

\* ocf.ReturnCodes used by the agent; "unhandled" is an exception that leaves
\* the operation without any return code.
success == "success"
isMissconfigured == "isMissconfigured"
isNotRunning == "isNotRunning"
unhandled == "unhandled"

None == "None"
NoServer == [id |-> None, host |-> None]
NoIp == [id |-> None, ip |-> None, server |-> None]

\* The 'ip' parameter of the resource.
Address == "10.0.0.1"
OtherAddress == "10.0.0.2"

\* Server listings of the API: 'host' is the cluster host whose public ip or
\* hostname the record carries.
ServerListings ==
    { << [id |-> "srv3", host |-> "other"], [id |-> "srv1", host |-> "hostA"],
         [id |-> "srv4", host |-> "hostA"], [id |-> "srv2", host |-> "hostB"] >>,
      << [id |-> "srv2", host |-> "hostB"] >> }

\* Floating-ip listings of the API.
FloatingIpListings ==
    { << [id |-> "fip2", ip |-> OtherAddress, server |-> "srv1"],
         [id |-> "fip1", ip |-> Address, server |-> s] >> : s \in {None, "srv3"} }
    \cup
    { << [id |-> "fip2", ip |-> OtherAddress, server |-> "srv1"] >> }

\* Values of the 'sleep' parameter (seconds); 5 is its default.
SleepValues == {1, 6}
SoloSleepValues == {1, 5, 6}
SoloHosts == {"hostA"}
FailoverSleepValues == {5}

\* ---------------------------------------------------------------- state
VARIABLES
    servers,      \* remote: the server listing
    floatingIps,  \* remote: the floating-ip listing with each assignment
    sleep,        \* the 'sleep' parameter of the resource
    op,           \* per host: the operation invoked last
    pc,           \* per host: where that invocation stands
    server,       \* per host: local 'server' of start/monitor
    ip,           \* per host: local 'ip' of start/monitor
    result,       \* per host: what the invocation returned
    trace,        \* per host: remote calls and sleeps of the invocation
    foreign,      \* per host: another host assigned since the invocation began
    started,      \* per host: a start returned success, remote unchanged since
    prevAssigns,  \* per host: successful assigns of the previous start
    spin,         \* flips at each retried failure the full trace leaves out
    phase         \* per host: "started" after a start returned success,
                  \* "stopped" after a stop that followed it

vars == << servers, floatingIps, sleep, op, pc, server, ip, result, trace,
           foreign, started, prevAssigns, spin, phase >>

remote == << servers, floatingIps >>

\* ------------------------------------------------------ pure definitions
\* self.wait taken twice the 'sleep' parameter.
wait_doubled(s) == s * 2

\* FloatingIp.populated: self.wait
wait(s) == s

\* self.rateLimitWait without the floor of 10 seconds.
rateLimitWait_noFloor(s) == s * 2

\* FloatingIp.populated: self.rateLimitWait
rateLimitWait(s) == IF s * 2 > 10 THEN s * 2 ELSE 10

\* The first of the matching positions of a listing, 0 if there is none.
FirstIndex(matching) ==
    IF matching = {} THEN 0
    ELSE CHOOSE i \in matching : \A j \in matching : i <= j

\* shared.makeHostFinder(...).find(client): the first server record that
\* matches this host, EnvironmentError when there is none.
hostFinder_find(h, list) ==
    LET i == FirstIndex({k \in DOMAIN list : list[k].host = h})
    IN IF i = 0 THEN [raised |-> EnvironmentError, value |-> NoServer]
       ELSE [raised |-> "ok", value |-> list[i]]

\* IpFinder.find: the first floating ip whose address is the given one,
\* EnvironmentError when there is none.
IpFinder_find(list, address) ==
    LET i == FirstIndex({k \in DOMAIN list : list[k].ip = address})
    IN IF i = 0 THEN [raised |-> EnvironmentError, value |-> NoIp]
       ELSE [raised |-> "ok", value |-> list[i]]

\* assign_to_server that posts to the first floating ip of the listing.
assign_to_server_first(list, ipId, serverId) ==
    [i \in DOMAIN list |->
        IF i = 1 THEN [list[i] EXCEPT !.server = serverId] ELSE list[i]]

\* An API that ignores an assignment when the floating ip already has a
\* target.
assign_to_server_ifFree(list, ipId, serverId) ==
    [i \in DOMAIN list |->
        IF list[i].id = ipId /\ list[i].server = None
        THEN [list[i] EXCEPT !.server = serverId]
        ELSE list[i]]

\* ip.assign_to_server(server.id) as the API applies it.
assign_to_server(list, ipId, serverId) ==
    [i \in DOMAIN list |->
        IF list[i].id = ipId THEN [list[i] EXCEPT !.server = serverId]
        ELSE list[i]]

\* What the except clauses around a call do with an exception:
\* "wait" / "rateLimitWait" sleep and loop, "isMissconfigured" returns that
\* code, "raise" lets the exception leave the operation.

\* start's first loop without its "except EnvironmentError" clause.
start_server_except_noNotFound(exc) ==
    CASE exc = HetznerInternalServerErrorException -> "wait"
      [] exc = HetznerRateLimitExceeded -> "rateLimitWait"
      [] exc = HetznerAuthenticationException -> "isMissconfigured"
      [] OTHER -> "raise"

\* start, first loop (hostFinder.find) and the outer try.
start_server_except(exc) ==
    CASE exc = HetznerInternalServerErrorException -> "wait"
      [] exc = HetznerRateLimitExceeded -> "rateLimitWait"
      [] exc = EnvironmentError -> "isMissconfigured"
      [] exc = HetznerAuthenticationException -> "isMissconfigured"
      [] OTHER -> "raise"

\* start, second loop (ipFinder.find) and the outer try.
start_ip_except(exc) ==
    CASE exc = HetznerActionException -> "wait"
      [] exc = HetznerInternalServerErrorException -> "wait"
      [] exc = HetznerRateLimitExceeded -> "rateLimitWait"
      [] exc = HetznerAuthenticationException -> "isMissconfigured"
      [] OTHER -> "raise"

\* start's third loop with the authentication error caught inside the loop.
start_assign_except_retryAuth(exc) ==
    CASE exc = HetznerActionException -> "wait"
      [] exc = HetznerInternalServerErrorException -> "wait"
      [] exc = HetznerRateLimitExceeded -> "rateLimitWait"
      [] exc = HetznerAuthenticationException -> "wait"
      [] OTHER -> "raise"

\* start, third loop (ip.assign_to_server) and the outer try.
start_assign_except(exc) ==
    CASE exc = HetznerActionException -> "wait"
      [] exc = HetznerInternalServerErrorException -> "wait"
      [] exc = HetznerRateLimitExceeded -> "rateLimitWait"
      [] exc = HetznerAuthenticationException -> "isMissconfigured"
      [] OTHER -> "raise"

\* monitor, first loop (hostFinder.find) and the outer try.
monitor_server_except(exc) ==
    CASE exc = HetznerActionException -> "wait"
      [] exc = HetznerInternalServerErrorException -> "wait"
      [] exc = HetznerRateLimitExceeded -> "rateLimitWait"
      [] exc = EnvironmentError -> "isMissconfigured"
      [] exc = HetznerAuthenticationException -> "isMissconfigured"
      [] OTHER -> "raise"

\* monitor, second loop (ipFinder.find) and the outer try.
monitor_ip_except(exc) ==
    CASE exc = HetznerInternalServerErrorException -> "wait"
      [] exc = HetznerActionException -> "wait"
      [] exc = HetznerRateLimitExceeded -> "rateLimitWait"
      [] exc = HetznerAuthenticationException -> "isMissconfigured"
      [] OTHER -> "raise"

\* The already-assigned test taking any assignment for this server's.
start_alreadyAssigned_any(ipRec, serverRec) == ipRec.server # None

\* The already-assigned test never taken.
start_alreadyAssigned_never(ipRec, serverRec) == FALSE

\* start: "if ip.server == server.id: return success", else go on to assign.
start_alreadyAssigned(ipRec, serverRec) == ipRec.server = serverRec.id

\* monitor reporting success for a floating ip assigned to any server.
monitor_result_anyServer(ipRec, serverRec) ==
    IF ipRec.server # None THEN success ELSE isNotRunning

\* monitor: isActive and the return code that follows from it.
monitor_result(ipRec, serverRec) ==
    IF ipRec.server = serverRec.id THEN success ELSE isNotRunning

\* ------------------------------------------------------------ the trace
CallEvent(api, out) == [ev |-> api, out |-> out, secs |-> 0]
SleepEvent(secs) == [ev |-> "sleep", out |-> "-", secs |-> secs]

IsCall(e) == e.ev # "sleep"
\* Calls of a trace whose exception was slept on: one time.sleep each.
Retries(t) == Cardinality({i \in DOMAIN t : t[i].ev = "sleep"})
\* ip.assign_to_server calls of a trace, and those that returned.
AssignCalls(t) == Cardinality({i \in DOMAIN t : t[i].ev = "AssignFloatingIp"})
AssignsOk(t) ==
    Cardinality({i \in DOMAIN t : t[i] = CallEvent("AssignFloatingIp", "ok")})
\* Remote calls of a trace.
Calls(t) == Cardinality({i \in DOMAIN t : IsCall(t[i])})

\* Retried failures of the invocations under way, over all hosts.
RECURSIVE Retried(_)
Retried(hs) ==
    IF hs = {} THEN 0
    ELSE LET h == CHOOSE x \in hs : TRUE
         IN Retries(trace[h]) + Retried(hs \ {h})

\* Outcomes the API may give the next remote call.
Outcomes(limit) ==
    {"ok", HetznerAuthenticationException}
    \cup (IF Retried(Hosts) < limit THEN RetryableExceptions ELSE {})

\* ------------------------------------------------------------------ Init
InitWith(sleeps) ==
    /\ servers \in ServerListings
    /\ floatingIps \in FloatingIpListings
    /\ sleep \in sleeps
    /\ op = [h \in Hosts |-> "none"]
    /\ pc = [h \in Hosts |-> "idle"]
    /\ server = [h \in Hosts |-> NoServer]
    /\ ip = [h \in Hosts |-> NoIp]
    /\ result = [h \in Hosts |-> "none"]
    /\ trace = [h \in Hosts |-> << >>]
    /\ foreign = [h \in Hosts |-> FALSE]
    /\ started = [h \in Hosts |-> FALSE]
    /\ prevAssigns = [h \in Hosts |-> 0]
    /\ spin = FALSE
    /\ phase = [h \in Hosts |-> "-"]

\* --------------------------------------------------------------- actions
\* The cluster manager invokes an operation on a host that runs none.
Invoke(h, o, first) ==
    /\ pc[h] \in {"idle", "done"}
    /\ op' = [op EXCEPT ![h] = o]
    /\ pc' = [pc EXCEPT ![h] = first]
    /\ server' = [server EXCEPT ![h] = NoServer]
    /\ ip' = [ip EXCEPT ![h] = NoIp]
    /\ result' = [result EXCEPT ![h] = IF first = "done" THEN success ELSE "none"]
    /\ trace' = [trace EXCEPT ![h] = << >>]
    /\ foreign' = [foreign EXCEPT ![h] = FALSE]
    /\ prevAssigns' = [prevAssigns EXCEPT ![h] =
           IF foreign[h] THEN 0
           ELSE IF op[h] = "start" THEN AssignsOk(trace[h])
           ELSE @]

\* The reaction of an except clause to an exception of the call 'api'.
React(h, api, exc, reaction) ==
    /\ trace' = [trace EXCEPT ![h] =
           @ \o << CallEvent(api, exc) >>
             \o (CASE reaction = "wait" -> << SleepEvent(wait(sleep)) >>
                   [] reaction = "rateLimitWait" -> << SleepEvent(rateLimitWait(sleep)) >>
                   [] OTHER -> << >>)]
    /\ pc' = [pc EXCEPT ![h] =
           IF reaction \in {"wait", "rateLimitWait"} THEN @ ELSE "done"]
    /\ result' = [result EXCEPT ![h] =
           CASE reaction = "isMissconfigured" -> isMissconfigured
             [] reaction = "raise" -> unhandled
             [] OTHER -> @]

\* start(): entry.
start_invoke(h) ==
    /\ Invoke(h, "start", "server")
    /\ UNCHANGED << spin, remote, sleep, started >>

\* monitor(): entry.
monitor_invoke(h) ==
    /\ Invoke(h, "monitor", "server")
    /\ UNCHANGED << spin, remote, sleep, started >>

\* A stop that clears the target of the floating ip.
stop_unassign(h) ==
    /\ Invoke(h, "stop", "done")
    /\ floatingIps' = [i \in DOMAIN floatingIps |->
           IF floatingIps[i].ip = Address
           THEN [floatingIps[i] EXCEPT !.server = None] ELSE floatingIps[i]]
    /\ UNCHANGED << spin, servers, sleep, started >>

\* stop(): returns success, nothing else.
stop(h) ==
    /\ Invoke(h, "stop", "done")
    /\ UNCHANGED << spin, remote, sleep, started >>

\* A first loop of start that goes on to the assignment, the floating ip
\* not fetched.
start_findServer_skipIp(h, out) ==
    /\ op[h] = "start" /\ pc[h] = "server"
    /\ LET found == hostFinder_find(h, servers)
           exc == IF out = "ok" THEN found.raised ELSE out
       IN IF exc = "ok"
          THEN /\ server' = [server EXCEPT ![h] = found.value]
               /\ trace' = [trace EXCEPT ![h] = @ \o << CallEvent("ListServers", "ok") >>]
               /\ pc' = [pc EXCEPT ![h] = "assign"]
               /\ UNCHANGED result
          ELSE /\ React(h, "ListServers", exc, start_server_except(exc))
               /\ UNCHANGED server
    /\ UNCHANGED << spin, remote, sleep, op, ip, foreign, started, prevAssigns >>

\* start(): one pass of the first loop.
start_findServer(h, out) ==
    /\ op[h] = "start" /\ pc[h] = "server"
    /\ LET found == hostFinder_find(h, servers)
           exc == IF out = "ok" THEN found.raised ELSE out
       IN IF exc = "ok"
          THEN /\ server' = [server EXCEPT ![h] = found.value]
               /\ trace' = [trace EXCEPT ![h] = @ \o << CallEvent("ListServers", "ok") >>]
               /\ pc' = [pc EXCEPT ![h] = "ip"]
               /\ UNCHANGED result
          ELSE /\ React(h, "ListServers", exc, start_server_except(exc))
               /\ UNCHANGED server
    /\ UNCHANGED << spin, remote, sleep, op, ip, foreign, started, prevAssigns >>

\* start(): one pass of the second loop, and the already-assigned test once
\* it has left the loop.
start_findIp(h, out) ==
    /\ op[h] = "start" /\ pc[h] = "ip"
    /\ LET found == IpFinder_find(floatingIps, Address)
           exc == IF out = "ok" THEN found.raised ELSE out
       IN IF exc = "ok"
          THEN /\ ip' = [ip EXCEPT ![h] = found.value]
               /\ trace' = [trace EXCEPT ![h] = @ \o << CallEvent("ListFloatingIps", "ok") >>]
               /\ IF start_alreadyAssigned(found.value, server[h])
                  THEN /\ pc' = [pc EXCEPT ![h] = "done"]
                       /\ result' = [result EXCEPT ![h] = success]
                       /\ started' = [started EXCEPT ![h] = TRUE]
                  ELSE /\ pc' = [pc EXCEPT ![h] = "assign"]
                       /\ UNCHANGED << result, started >>
          ELSE /\ React(h, "ListFloatingIps", exc, start_ip_except(exc))
               /\ UNCHANGED << ip, started >>
    /\ UNCHANGED << spin, remote, sleep, op, server, foreign, prevAssigns >>

\* A third loop of start that does not set 'success' after the call returned.
start_assign_again(h, out) ==
    /\ op[h] = "start" /\ pc[h] = "assign"
    /\ IF out = "ok"
       THEN /\ floatingIps' = assign_to_server(floatingIps, ip[h].id, server[h].id)
            /\ trace' = [trace EXCEPT ![h] = @ \o << CallEvent("AssignFloatingIp", "ok") >>]
            /\ pc' = [pc EXCEPT ![h] =
                   IF AssignsOk(trace[h]) >= 1 THEN "done" ELSE @]
            /\ result' = [result EXCEPT ![h] =
                   IF AssignsOk(trace[h]) >= 1 THEN success ELSE @]
            /\ started' = [g \in Hosts |-> g = h]
            /\ foreign' = [g \in Hosts |-> IF g = h THEN foreign[g] ELSE TRUE]
            /\ prevAssigns' = [g \in Hosts |-> IF g = h THEN prevAssigns[g] ELSE 0]
       ELSE /\ React(h, "AssignFloatingIp", out, start_assign_except(out))
            /\ UNCHANGED << floatingIps, started, foreign, prevAssigns >>
    /\ UNCHANGED << spin, servers, sleep, op, server, ip >>

\* A third loop of start that never sets 'success': the call is made again
\* for as long as it returns.
start_assign_forever(h, out) ==
    /\ op[h] = "start" /\ pc[h] = "assign"
    /\ IF out = "ok"
       THEN /\ floatingIps' = assign_to_server(floatingIps, ip[h].id, server[h].id)
            /\ spin' = ~spin
            /\ started' = [g \in Hosts |-> g = h]
            /\ foreign' = [g \in Hosts |-> IF g = h THEN foreign[g] ELSE TRUE]
            /\ prevAssigns' = [g \in Hosts |-> IF g = h THEN prevAssigns[g] ELSE 0]
            /\ UNCHANGED << trace, pc, result >>
       ELSE /\ React(h, "AssignFloatingIp", out, start_assign_except(out))
            /\ UNCHANGED << spin, floatingIps, started, foreign, prevAssigns >>
    /\ UNCHANGED << servers, sleep, op, server, ip >>

\* start(): one pass of the third loop, and the final return.
start_assign(h, out) ==
    /\ op[h] = "start" /\ pc[h] = "assign"
    /\ IF out = "ok"
       THEN /\ floatingIps' = assign_to_server(floatingIps, ip[h].id, server[h].id)
            /\ trace' = [trace EXCEPT ![h] = @ \o << CallEvent("AssignFloatingIp", "ok") >>]
            /\ pc' = [pc EXCEPT ![h] = "done"]
            /\ result' = [result EXCEPT ![h] = success]
            /\ started' = [g \in Hosts |-> g = h]
            /\ foreign' = [g \in Hosts |-> IF g = h THEN foreign[g] ELSE TRUE]
            /\ prevAssigns' = [g \in Hosts |-> IF g = h THEN prevAssigns[g] ELSE 0]
       ELSE /\ React(h, "AssignFloatingIp", out, start_assign_except(out))
            /\ UNCHANGED << floatingIps, started, foreign, prevAssigns >>
    /\ UNCHANGED << spin, servers, sleep, op, server, ip >>

\* monitor(): one pass of the first loop.
monitor_findServer(h, out) ==
    /\ op[h] = "monitor" /\ pc[h] = "server"
    /\ LET found == hostFinder_find(h, servers)
           exc == IF out = "ok" THEN found.raised ELSE out
       IN IF exc = "ok"
          THEN /\ server' = [server EXCEPT ![h] = found.value]
               /\ trace' = [trace EXCEPT ![h] = @ \o << CallEvent("ListServers", "ok") >>]
               /\ pc' = [pc EXCEPT ![h] = "ip"]
               /\ UNCHANGED result
          ELSE /\ React(h, "ListServers", exc, monitor_server_except(exc))
               /\ UNCHANGED server
    /\ UNCHANGED << spin, remote, sleep, op, ip, foreign, started, prevAssigns >>

\* A monitor that assigns the floating ip when it finds it elsewhere.
monitor_findIp_assign(h, out) ==
    /\ op[h] = "monitor" /\ pc[h] = "ip"
    /\ LET found == IpFinder_find(floatingIps, Address)
           exc == IF out = "ok" THEN found.raised ELSE out
       IN IF exc = "ok"
          THEN /\ ip' = [ip EXCEPT ![h] = found.value]
               /\ trace' = [trace EXCEPT ![h] = @ \o << CallEvent("ListFloatingIps", "ok") >>]
               /\ pc' = [pc EXCEPT ![h] = "done"]
               /\ result' = [result EXCEPT ![h] = success]
               /\ floatingIps' = assign_to_server(floatingIps, found.value.id, server[h].id)
          ELSE /\ React(h, "ListFloatingIps", exc, monitor_ip_except(exc))
               /\ UNCHANGED << ip, floatingIps >>
    /\ UNCHANGED << spin, servers, sleep, op, server, foreign, started, prevAssigns >>

\* monitor(): one pass of the second loop, and the return that follows it.
monitor_findIp(h, out) ==
    /\ op[h] = "monitor" /\ pc[h] = "ip"
    /\ LET found == IpFinder_find(floatingIps, Address)
           exc == IF out = "ok" THEN found.raised ELSE out
       IN IF exc = "ok"
          THEN /\ ip' = [ip EXCEPT ![h] = found.value]
               /\ trace' = [trace EXCEPT ![h] = @ \o << CallEvent("ListFloatingIps", "ok") >>]
               /\ pc' = [pc EXCEPT ![h] = "done"]
               /\ result' = [result EXCEPT ![h] = monitor_result(found.value, server[h])]
          ELSE /\ React(h, "ListFloatingIps", exc, monitor_ip_except(exc))
               /\ UNCHANGED ip
    /\ UNCHANGED << spin, remote, sleep, op, server, foreign, started, prevAssigns >>

\* One step of one of the hosts H, the API failing at most 'limit' times.
Step(H, limit) ==
    \/ \E h \in H : start_invoke(h)
    \/ \E h \in H : monitor_invoke(h)
    \/ \E h \in H : stop(h)
    \/ \E h \in H : \E out \in Outcomes(limit) : start_findServer(h, out)
    \/ \E h \in H : \E out \in Outcomes(limit) : start_findIp(h, out)
    \/ \E h \in H : \E out \in Outcomes(limit) : start_assign(h, out)
    \/ \E h \in H : \E out \in Outcomes(limit) : monitor_findServer(h, out)
    \/ \E h \in H : \E out \in Outcomes(limit) : monitor_findIp(h, out)

\* The except clause that an exception meets where the invocation stands.
Reaction(h, exc) ==
    CASE op[h] = "start" /\ pc[h] = "server" -> start_server_except(exc)
      [] op[h] = "start" /\ pc[h] = "ip" -> start_ip_except(exc)
      [] op[h] = "start" /\ pc[h] = "assign" -> start_assign_except(exc)
      [] op[h] = "monitor" /\ pc[h] = "server" -> monitor_server_except(exc)
      [] op[h] = "monitor" /\ pc[h] = "ip" -> monitor_ip_except(exc)
      [] OTHER -> "raise"

\* One more retried failure of the call under way, once the trace holds
\* 'limit' of them: the except clause sleeps and the loop makes the call
\* again; the trace keeps its length and 'spin' flips.
retry_more(h, exc, limit) ==
    /\ pc[h] \in {"server", "ip", "assign"}
    /\ Retried(Hosts) >= limit
    /\ Reaction(h, exc) \in {"wait", "rateLimitWait"}
    /\ spin' = ~spin
    /\ UNCHANGED << remote, sleep, op, pc, server, ip, result, trace,
                    foreign, started, prevAssigns >>

\* A remote call of h that does not fail with a retried exception.
call_returns(h, out) ==
    \/ start_findServer(h, out)
    \/ start_findIp(h, out)
    \/ start_assign(h, out)
    \/ monitor_findServer(h, out)
    \/ monitor_findIp(h, out)

\* What the step of a host makes of its phase.
PhaseAfter(h) ==
    IF op'[h] = "start" /\ pc[h] # "done" /\ pc'[h] = "done" /\ result'[h] = success
    THEN "started"
    ELSE IF op'[h] = "start" /\ pc[h] \in {"idle", "done"} /\ pc'[h] = "server"
    THEN "-"
    ELSE IF op'[h] = "stop" /\ op[h] # "stop" /\ phase[h] = "started"
    THEN "stopped"
    ELSE phase[h]

\* Both hosts, their invocations interleaved.
Init == InitWith(SleepValues)
Next == Step(Hosts, MaxFail) /\ UNCHANGED phase
Spec == Init /\ [][Next]_vars

\* One host alone, with longer runs of failures.
InitSolo == InitWith(SoloSleepValues)
NextSolo == Step(SoloHosts, MaxSoloFail) /\ UNCHANGED phase
SpecSolo == InitSolo /\ [][NextSolo]_vars

\* One host alone, the API free to fail without end.
NextRetry ==
    /\ \/ Step(SoloHosts, MaxSoloFail)
       \/ \E h \in SoloHosts : \E exc \in RetryableExceptions :
             retry_more(h, exc, MaxSoloFail)
    /\ UNCHANGED phase
\* The invocation keeps running, whatever the API does.
SpecRetry == InitSolo /\ [][NextRetry]_vars /\ WF_vars(NextRetry)
\* Every remote call eventually stops failing with a retried exception.
Returns ==
    /\ \E h \in SoloHosts : \E out \in {"ok", HetznerAuthenticationException} :
          call_returns(h, out)
    /\ UNCHANGED phase
SpecLive == InitSolo /\ [][NextRetry]_vars /\ WF_vars(Returns)

\* Both hosts, with the phase of each host kept.
InitFailover == InitWith(FailoverSleepValues)
NextFailover ==
    /\ Step(Hosts, MaxFail)
    /\ phase' = [h \in Hosts |-> PhaseAfter(h)]
SpecFailover == InitFailover /\ [][NextFailover]_vars

\* ---------------------------------------------------------- properties
Last(t) == t[Len(t)]
Returned(h) == pc[h] = "done"
\* The invocation of h made the call 'api' and it ended as 'out'.
EndedBy(h, api, out) ==
    /\ trace[h] # << >>
    /\ Last(trace[h]) = CallEvent(api, out)
\* The remote assignment of the configured floating ip.
assignedServerId == IpFinder_find(floatingIps, Address).value.server
HasRetried(h) == Retries(trace[h]) > 0

\* C1: a start whose server resolution raised the not-found error has
\* returned isMissconfigured and has made no AssignFloatingIp call,
\* whatever failures of ListServers were retried before.
C1_NoServerIsMissconfigured ==
    \A h \in Hosts :
        (op[h] = "start" /\ EndedBy(h, "ListServers", EnvironmentError))
        => /\ Returned(h)
           /\ result[h] = isMissconfigured
           /\ AssignCalls(trace[h]) = 0
           /\ \A i \in DOMAIN trace[h] : trace[h][i].ev \in {"ListServers", "sleep"}

C1_Witness ==
    /\ op["hostA"] = "start"
    /\ EndedBy("hostA", "ListServers", EnvironmentError)
    /\ Retries(trace["hostA"]) = 2
    /\ result["hostA"] = isMissconfigured

\* C2: an authentication error of any remote call of start or monitor is
\* the last event of the invocation (no sleep, no call after it), and the
\* invocation has returned isMissconfigured.
C2_AuthIsImmediate ==
    \A h \in Hosts : \A i \in DOMAIN trace[h] :
        trace[h][i].out = HetznerAuthenticationException
        => /\ i = Len(trace[h])
           /\ Returned(h)
           /\ result[h] = isMissconfigured

C2_Witness ==
    /\ op["hostA"] = "start"
    /\ EndedBy("hostA", "AssignFloatingIp", HetznerAuthenticationException)
    /\ op["hostB"] = "monitor"
    /\ EndedBy("hostB", "ListFloatingIps", HetznerAuthenticationException)

\* C3 as claimed: a floating-ip lookup that finds no record with the
\* configured address does not end start or monitor.
C3_Original ==
    \A h \in Hosts :
        EndedBy(h, "ListFloatingIps", EnvironmentError) => ~Returned(h)

\* C4 as claimed: every Transient failure of a remote call of start or
\* monitor is followed by a sleep of the short delay, and the next call is
\* the same call again.
C4_TransientRetried ==
    \A h \in Hosts : \A i \in DOMAIN trace[h] :
        (IsCall(trace[h][i]) /\ Classify(trace[h][i].out) = "Transient")
        => /\ i < Len(trace[h])
           /\ trace[h][i + 1] = SleepEvent(wait(sleep))
           /\ (i + 2 <= Len(trace[h]) => trace[h][i + 2].ev = trace[h][i].ev)
           /\ (i + 1 = Len(trace[h]) => ~Returned(h))

\* C5 as claimed: an invocation that has ended has returned one of the
\* outcome codes of its operation.
C5_ReturnsOutcomeCode ==
    \A h \in Hosts :
        Returned(h)
        => result[h] \in
             (CASE op[h] = "start" -> {success, isMissconfigured}
                [] op[h] = "monitor" -> {success, isNotRunning, isMissconfigured}
                [] OTHER -> {success})

\* C6: when start has returned success and no other host has assigned the
\* floating ip since the invocation began, the floating ip is assigned to
\* the server that start resolved for this host.
C6_StartSuccessAssigned ==
    \A h \in Hosts :
        (op[h] = "start" /\ Returned(h) /\ result[h] = success /\ ~foreign[h])
        => /\ server[h] # NoServer
           /\ server[h] = hostFinder_find(h, servers).value
           /\ assignedServerId = server[h].id

C6_Witness ==
    /\ op["hostA"] = "start" /\ Returned("hostA") /\ result["hostA"] = success
    /\ ~foreign["hostA"]
    /\ EndedBy("hostA", "AssignFloatingIp", "ok")
    /\ HasRetried("hostA")

\* C7: a monitor that ends on a host, after a start on that host returned
\* success and with the remote state unchanged since, returns success unless
\* the API refused its credentials.
C7_MonitorAfterStart ==
    \A h \in Hosts :
        (op[h] = "monitor" /\ Returned(h) /\ started[h]
           /\ ~EndedBy(h, "ListFloatingIps", HetznerAuthenticationException)
           /\ ~EndedBy(h, "ListServers", HetznerAuthenticationException))
        => result[h] = success

C7_Witness ==
    /\ op["hostA"] = "monitor" /\ Returned("hostA") /\ started["hostA"]
    /\ HasRetried("hostA")
    /\ result["hostA"] = success

\* C8: a monitor in which both lookups succeeded returns isNotRunning
\* exactly when the fetched record's server differs from the resolved
\* server's id (None included) and success exactly when they are equal.
C8_MonitorResult ==
    \A h \in Hosts :
        (op[h] = "monitor" /\ EndedBy(h, "ListFloatingIps", "ok"))
        => /\ Returned(h)
           /\ (~foreign[h] => ip[h] = IpFinder_find(floatingIps, Address).value)
           /\ server[h] = hostFinder_find(h, servers).value
           /\ (result[h] = isNotRunning <=> ip[h].server # server[h].id)
           /\ (result[h] = success <=> ip[h].server = server[h].id)

C8_Witness ==
    /\ op["hostA"] = "monitor" /\ EndedBy("hostA", "ListFloatingIps", "ok")
    /\ ip["hostA"].server = None /\ result["hostA"] = isNotRunning
    /\ op["hostB"] = "monitor" /\ EndedBy("hostB", "ListFloatingIps", "ok")
    /\ ip["hostB"].server = "srv2" /\ result["hostB"] = success

\* C9: a start that fetched a record already assigned to its server has
\* returned success without an AssignFloatingIp call; and two consecutive
\* starts of a host, no other host assigning meanwhile, make at most one
\* successful assignment together.
C9_StartIdempotent ==
    \A h \in Hosts :
        op[h] = "start"
        => /\ ((ip[h] # NoIp /\ ip[h].server = server[h].id)
                => (Returned(h) /\ result[h] = success
                      /\ AssignCalls(trace[h]) = 0))
           /\ (~foreign[h] => prevAssigns[h] + AssignsOk(trace[h]) <= 1)

C9_Witness ==
    /\ op["hostA"] = "start" /\ Returned("hostA") /\ result["hostA"] = success
    /\ ~foreign["hostA"]
    /\ prevAssigns["hostA"] = 1
    /\ Calls(trace["hostA"]) = 2

\* C10: a stop returns success at once, having made no remote call, and
\* leaves the remote listings as they were.
C10_StopDoesNothing ==
    [][\A h \in Hosts :
          (op'[h] = "stop" /\ op[h] # "stop")
          => /\ pc'[h] = "done"
             /\ result'[h] = success
             /\ trace'[h] = << >>
             /\ remote' = remote]_vars

C10_Witness ==
    /\ op["hostA"] = "stop" /\ Returned("hostA") /\ result["hostA"] = success
    /\ started["hostA"]
    /\ assignedServerId = "srv1"

\* The delay the claims give a classification, for a base delay.
ClaimedDelay(class, base) ==
    CASE class = "Transient" -> base
      [] class = "RateLimited" -> (IF 2 * base >= 10 THEN 2 * base ELSE 10)
      [] OTHER -> 0
\* The order of the three remote calls.
Stage(api) ==
    CASE api = "ListServers" -> 1
      [] api = "ListFloatingIps" -> 2
      [] api = "AssignFloatingIp" -> 3
      [] OTHER -> 0
Apis == {"ListServers", "ListFloatingIps", "AssignFloatingIp"}
CallsOf(t, api) == {i \in DOMAIN t : t[i].ev = api}
\* Positions i < j of two calls of a trace with no call between them.
ConsecutiveCalls(t, i, j) ==
    /\ i < j /\ IsCall(t[i]) /\ IsCall(t[j])
    /\ \A k \in DOMAIN t : (i < k /\ k < j) => ~IsCall(t[k])

\* C11: every sleep follows a failed call at once and lasts what the
\* classification of that failure and the base delay give: the base delay
\* for Transient, max(2 x base, 10) for RateLimited (10 for base 1 and 5,
\* 12 for base 6); a NotFound or AuthenticationFailed failure is followed
\* by no sleep.
C11_DelayByClassification ==
    \A h \in Hosts : \A i \in DOMAIN trace[h] :
        LET t == trace[h] IN
        /\ t[i].ev = "sleep"
           => /\ i > 1
              /\ IsCall(t[i - 1])
              /\ Classify(t[i - 1].out) \in {"Transient", "RateLimited"}
              /\ t[i].secs = ClaimedDelay(Classify(t[i - 1].out), sleep)
              /\ (Classify(t[i - 1].out) = "RateLimited"
                    => t[i].secs = (CASE sleep = 1 -> 10 [] sleep = 5 -> 10
                                      [] sleep = 6 -> 12 [] OTHER -> 2 * sleep))
        /\ (IsCall(t[i]) /\ Classify(t[i].out) \in {"NotFound", "AuthenticationFailed"})
           => i = Len(t)

C11_Witness ==
    LET t == trace["hostA"] IN
    /\ sleep = 1
    /\ op["hostA"] = "start" /\ Len(t) >= 7
    /\ t[1] = CallEvent("ListServers", HetznerRateLimitExceeded)
    /\ t[2] = SleepEvent(10)
    /\ t[4] = CallEvent("ListFloatingIps", HetznerActionException)
    /\ t[5] = SleepEvent(1)
    /\ t[7] = CallEvent("AssignFloatingIp", HetznerAuthenticationException)

\* C12: when the calls of one kind in an invocation are k Transient
\* failures followed by a call that returned, they are k + 1 attempts with
\* exactly one sleep of the base delay after each failure and nothing else
\* between them, and the invocation goes on with what the last attempt
\* returned.
C12_RetryThenSuccess ==
    \A h \in Hosts : \A api \in Apis :
        LET t == trace[h]
            at == CallsOf(t, api)
            failed == {i \in at : t[i].out # "ok"}
            k == Cardinality(failed)
        IN (/\ at # {}
            /\ \E i \in at : t[i].out = "ok" /\ \A j \in at : j <= i
            /\ \A i \in failed : Classify(t[i].out) = "Transient")
           => \E first \in at : \E last \in at :
                /\ \A i \in at : first <= i /\ i <= last
                /\ Cardinality(at) = k + 1
                /\ last - first = 2 * k
                /\ \A j \in first .. last :
                     IF (j - first) % 2 = 0 THEN j \in at
                     ELSE t[j] = SleepEvent(sleep)
                /\ Cardinality({j \in first .. last : t[j].ev = "sleep"}) = k
                /\ (api = "ListServers"
                      => server[h] = hostFinder_find(h, servers).value
                         /\ server[h] # NoServer)
                /\ (api = "ListFloatingIps"
                      => ip[h] # NoIp /\ ip[h].ip = Address
                         /\ (AssignsOk(t) = 0 /\ ~foreign[h]
                               => ip[h] = IpFinder_find(floatingIps, Address).value))
                /\ (api = "AssignFloatingIp"
                      => Returned(h) /\ result[h] = success
                         /\ (~foreign[h] => assignedServerId = server[h].id))

C12_Witness ==
    LET t == trace["hostA"] IN
    /\ sleep = 5
    /\ op["hostA"] = "start" /\ Len(t) = 9
    /\ t[2] = CallEvent("ListFloatingIps", HetznerInternalServerErrorException)
    /\ t[3] = SleepEvent(5)
    /\ t[4] = CallEvent("ListFloatingIps", HetznerActionException)
    /\ t[5] = SleepEvent(5)
    /\ t[6] = CallEvent("ListFloatingIps", HetznerActionException)
    /\ t[7] = SleepEvent(5)
    /\ t[8] = CallEvent("ListFloatingIps", "ok")
    /\ t[9] = CallEvent("AssignFloatingIp", "ok")
    /\ Cardinality(CallsOf(t, "ListFloatingIps")) = 4

\* C13 as claimed: a start or monitor whose floating-ip lookup found no
\* record with the configured address in the listing has returned
\* isMissconfigured.
C13_MissingIpIsMissconfigured ==
    \A h \in Hosts :
        (/\ op[h] \in {"start", "monitor"}
         /\ IpFinder_find(floatingIps, Address).raised = EnvironmentError
         /\ EndedBy(h, "ListFloatingIps", EnvironmentError))
        => (Returned(h) /\ result[h] = isMissconfigured)

\* C14: the calls of an invocation come in the order ListServers,
\* ListFloatingIps, AssignFloatingIp: a call of a later kind follows only a
\* call of the kind just before it that returned, no call of an earlier kind
\* follows, monitor never assigns, and AssignFloatingIp is called only with
\* a server and a floating-ip record both resolved.
C14_Staged ==
    \A h \in Hosts :
        LET t == trace[h] IN
        /\ \A i \in DOMAIN t : IsCall(t[i]) => t[i].ev \in Apis
        /\ (t # << >> => t[1].ev = "ListServers")
        /\ \A i \in DOMAIN t : \A j \in DOMAIN t :
              ConsecutiveCalls(t, i, j)
              => /\ Stage(t[i].ev) <= Stage(t[j].ev)
                 /\ (Stage(t[i].ev) < Stage(t[j].ev)
                       => /\ Stage(t[j].ev) = Stage(t[i].ev) + 1
                          /\ t[i].out = "ok"
                          /\ j = i + 1)
        /\ (op[h] = "monitor" => CallsOf(t, "AssignFloatingIp") = {})
        /\ ((CallsOf(t, "AssignFloatingIp") # {} \/ pc[h] = "assign")
              => /\ server[h] # NoServer
                 /\ ip[h] # NoIp
                 /\ \E i \in CallsOf(t, "ListServers") : t[i].out = "ok"
                 /\ \E i \in CallsOf(t, "ListFloatingIps") : t[i].out = "ok")

C14_Witness ==
    LET t == trace["hostA"] IN
    /\ op["hostA"] = "start" /\ Returned("hostA") /\ Len(t) = 9
    /\ t[1] = CallEvent("ListServers", HetznerInternalServerErrorException)
    /\ t[3] = CallEvent("ListServers", "ok")
    /\ t[4] = CallEvent("ListFloatingIps", HetznerRateLimitExceeded)
    /\ t[6] = CallEvent("ListFloatingIps", "ok")
    /\ t[7] = CallEvent("AssignFloatingIp", HetznerActionException)
    /\ t[9] = CallEvent("AssignFloatingIp", "ok")

\* C15: a call that returned is not made again in the invocation: the next
\* call, if any, is of the following kind; at most one AssignFloatingIp
\* call of a start returns, it is the last event of the invocation, and
\* start has then returned success.
C15_NoRepeatAfterSuccess ==
    \A h \in Hosts :
        LET t == trace[h] IN
        /\ \A i \in DOMAIN t : \A j \in DOMAIN t :
              (ConsecutiveCalls(t, i, j) /\ t[i].out = "ok")
              => Stage(t[j].ev) > Stage(t[i].ev)
        /\ \A api \in Apis :
              Cardinality({i \in CallsOf(t, api) : t[i].out = "ok"}) <= 1
        /\ \A i \in CallsOf(t, "AssignFloatingIp") :
              IF i = Len(t) THEN TRUE ELSE t[i].out # "ok"
        /\ \A i \in DOMAIN t :
              t[i] = CallEvent("AssignFloatingIp", "ok")
              => i = Len(t) /\ Returned(h) /\ result[h] = success

C15_Witness ==
    LET t == trace["hostA"] IN
    /\ op["hostA"] = "start" /\ Returned("hostA") /\ result["hostA"] = success
    /\ Len(t) = 7
    /\ t[3] = CallEvent("AssignFloatingIp", HetznerActionException)
    /\ t[5] = CallEvent("AssignFloatingIp", HetznerInternalServerErrorException)
    /\ t[7] = CallEvent("AssignFloatingIp", "ok")

Running(h) == pc[h] \in {"server", "ip", "assign"}
NoAuthEnd(h) ==
    /\ ~EndedBy(h, "ListServers", HetznerAuthenticationException)
    /\ ~EndedBy(h, "ListFloatingIps", HetznerAuthenticationException)
    /\ ~EndedBy(h, "AssignFloatingIp", HetznerAuthenticationException)

\* C16: when every remote call eventually stops failing with a retried
\* exception, every start and monitor invocation that is running eventually
\* returns, although nothing bounds the number of its retries.  (Under
\* SpecRetry, where the API may fail without end, the same property fails.)
C16_EventuallyEnds ==
    \A h \in Hosts : Running(h) ~> Returned(h)

\* A running invocation that has retried more often than any trace records.
C16_Witness ==
    /\ Running("hostA")
    /\ Retries(trace["hostA"]) = MaxSoloFail
    /\ spin

\* C17: no step of a monitor invocation changes the remote floating ips, and
\* no monitor invocation makes an AssignFloatingIp call, whatever it returns
\* and however its calls failed.
C17_MonitorAssignsNothing ==
    [][\A h \in Hosts :
          (op'[h] = "monitor" /\ (trace'[h] # trace[h] \/ pc'[h] # pc[h]))
          => /\ floatingIps' = floatingIps
             /\ AssignCalls(trace'[h]) = 0]_vars

C17_Witness ==
    /\ op["hostA"] = "monitor" /\ Returned("hostA") /\ HasRetried("hostA")
    /\ result["hostA"] = isNotRunning
    /\ assignedServerId = "srv3"
    /\ op["hostB"] = "monitor" /\ Returned("hostB")
    /\ result["hostB"] = isMissconfigured

\* Host a was started and then stopped, and the last successful start that
\* assigned or found the floating ip in place was on host b.
Handoff(a, b) == a # b /\ phase[a] = "stopped" /\ started[b]

HandedOver ==
    \A a \in Hosts : \A b \in Hosts :
        Handoff(a, b)
        => /\ assignedServerId = hostFinder_find(b, servers).value.id
           /\ (op[b] = "monitor" /\ Returned(b) /\ NoAuthEnd(b))
              => result[b] = success
           /\ (op[a] = "monitor" /\ EndedBy(a, "ListFloatingIps", "ok") /\ ~foreign[a])
              => result[a] = isNotRunning

\* C18: after a successful start on host a, a stop on a and a successful
\* start on another host b, the floating ip is assigned to b's server, a
\* monitor on b returns success and a monitor on a returns isNotRunning; and
\* no step takes an assigned floating ip to unassigned.
C18_Handoff ==
    [][/\ HandedOver'
       /\ assignedServerId # None => assignedServerId' # None]_vars

C18_Witness ==
    /\ Handoff("hostA", "hostB")
    /\ assignedServerId = "srv2"
    /\ op["hostA"] = "monitor" /\ Returned("hostA") /\ ~foreign["hostA"]
    /\ result["hostA"] = isNotRunning
    /\ op["hostB"] = "monitor" /\ Returned("hostB")
    /\ result["hostB"] = success

\* C19: a monitor on a host whose last start returned success and that was
\* stopped afterwards, no other host having assigned the floating ip since
\* that start, returns success unless the API refused its credentials.
C19_MonitorAfterStop ==
    \A h \in Hosts :
        (op[h] = "monitor" /\ Returned(h) /\ phase[h] = "stopped"
           /\ started[h] /\ NoAuthEnd(h))
        => result[h] = success

C19_Witness ==
    /\ op["hostA"] = "monitor" /\ Returned("hostA")
    /\ phase["hostA"] = "stopped" /\ started["hostA"]
    /\ EndedBy("hostA", "ListFloatingIps", "ok")
    /\ result["hostA"] = success
    /\ phase["hostB"] = "-"

\* C20: with starts of the two hosts interleaved, the configured address
\* has at most one record and so one assigned server; the host of the last
\* successful AssignFloatingIp call, and only that host, holds the floating
\* ip; and a monitor on the other host that fetches the record afterwards
\* returns isNotRunning.
C20_InterleavedStarts ==
    /\ Cardinality({i \in DOMAIN floatingIps : floatingIps[i].ip = Address}) <= 1
    /\ Cardinality({h \in Hosts : started[h]}) <= 1
    /\ \A h \in Hosts :
          /\ started[h] => assignedServerId = hostFinder_find(h, servers).value.id
          /\ (op[h] = "start" /\ EndedBy(h, "AssignFloatingIp", "ok") /\ ~foreign[h])
             => started[h]
          /\ (op[h] = "monitor" /\ EndedBy(h, "ListFloatingIps", "ok") /\ ~foreign[h]
                /\ \E g \in Hosts \ {h} : started[g])
             => result[h] = isNotRunning

\* Both starts returned success; hostB fetched the record before hostA's
\* assignment and assigned after it.
C20_Witness ==
    /\ op["hostA"] = "start" /\ EndedBy("hostA", "AssignFloatingIp", "ok")
    /\ op["hostB"] = "start" /\ EndedBy("hostB", "AssignFloatingIp", "ok")
    /\ result["hostA"] = success /\ result["hostB"] = success
    /\ ip["hostB"].server # "srv1"
    /\ started["hostB"] /\ ~started["hostA"]
    /\ assignedServerId = "srv2"

====
